---------------------------- MODULE Spec2Model ----------------------------
(***************************************************************************)
(* A model of tz_aware_dt: datetime_with_tz and its helpers (_get_tz,      *)
(* _parse_dt_from_str, _tokenize_datetime, _recompile_datetime),           *)
(* str2epoch, and utils.format_duration.                                    *)
(*                                                                         *)
(* Python strings are sequences of one-character strings.  A timestamp is  *)
(* a record [day, sec, us, tzinfo]: the wall-clock day (days since         *)
(* 1970-01-01), second of that day, microsecond, and the attached zone     *)
(* (NoTz for a naive timestamp).  A zone is a record [kind, key, off] with *)
(* off its UTC offset in seconds at the modelled dates.                     *)
(***************************************************************************)
EXTENDS Integers, Sequences, FiniteSets, TLC

VARIABLES
    TZ_LOCAL,       \* the process-wide local zone (tz_aware_dt.py:51)
    nativeColon,    \* whether the interpreter's own %z accepts "+hh:mm" (3.7+) or not (3.6)
    search_cached,  \* whether _parse_dt_from_str._dt_fmt_search is set
    time_re,        \* _tokenize_datetime._time_re: 0 while unset, else the id of a table in heap
    call,           \* the arguments of the call being made
    res,            \* what the call returned or raised
    pc,             \* sequential specifications: "idle" before the call, "done" after
    tpc,            \* threads: each thread's position in _tokenize_datetime
    tlocal,         \* threads: each thread's local time_re (the id of a table object)
    tseen,          \* threads: the directive patterns a thread's compile has read so far
    heap            \* threads: the TimeRE table objects created so far

vars == <<TZ_LOCAL, nativeColon, search_cached, time_re, call, res, pc, tpc, tlocal, tseen, heap>>

---------------------------------------------------------------------------
(* Characters and strings *)

Digits == {"0", "1", "2", "3", "4", "5", "6", "7", "8", "9"}
Digits05 == {"0", "1", "2", "3", "4", "5"}
UpperSeq == <<"A", "B", "C", "D", "E", "F", "G", "H", "I", "J", "K", "L", "M",
              "N", "O", "P", "Q", "R", "S", "T", "U", "V", "W", "X", "Y", "Z">>
LowerSeq == <<"a", "b", "c", "d", "e", "f", "g", "h", "i", "j", "k", "l", "m",
              "n", "o", "p", "q", "r", "s", "t", "u", "v", "w", "x", "y", "z">>
Upper == {UpperSeq[i] : i \in DOMAIN UpperSeq}
Lower == {LowerSeq[i] : i \in DOMAIN LowerSeq}

\* str.lower() of one character (the matchers are compiled with IGNORECASE)
ToLower(c) ==
    IF c \in Upper THEN LowerSeq[CHOOSE i \in DOMAIN UpperSeq : UpperSeq[i] = c] ELSE c

RECURSIVE LowerStr(_)
LowerStr(s) == IF s = <<>> THEN <<>> ELSE <<ToLower(Head(s))>> \o LowerStr(Tail(s))

\* s[i], or "" past either end
Char(s, i) == IF i >= 1 /\ i <= Len(s) THEN s[i] ELSE ""

IsDigit(c) == c \in Digits

Digits_seq == <<"0", "1", "2", "3", "4", "5", "6", "7", "8", "9">>
DigitVal(c) == CHOOSE v \in 0..9 : Digits_seq[v + 1] = c

\* int() of a string of digits
RECURSIVE IntOf(_)
IntOf(s) == IF s = <<>> THEN 0 ELSE 10 * IntOf(SubSeq(s, 1, Len(s) - 1)) + DigitVal(s[Len(s)])

\* str.replace(old, new): every non-overlapping occurrence, left to right
RECURSIVE Replace(_, _, _)
Replace(s, old, new) ==
    IF Len(s) < Len(old) THEN s
    ELSE IF SubSeq(s, 1, Len(old)) = old
         THEN new \o Replace(SubSeq(s, Len(old) + 1, Len(s)), old, new)
         ELSE <<Head(s)>> \o Replace(Tail(s), old, new)

Contains(s, c) == \E i \in DOMAIN s : s[i] = c

---------------------------------------------------------------------------
(* Zones and the timezone database *)

NoTz == [kind |-> "none", key |-> "", off |-> 0]
Iana(key, off) == [kind |-> "iana", key |-> key, off |-> off]
FixedTz(off) == [kind |-> "fixed", key |-> "", off |-> off]

Z_UTC == Iana("UTC", 0)
Z_NewYork == Iana("America/New_York", 0 - 18000)
Z_Chicago == Iana("America/Chicago", 0 - 21600)
Z_HongKong == Iana("Asia/Hong_Kong", 28800)
Z_GMT0 == Iana("GMT0", 0)

S_UTC == <<"U", "T", "C">>
S_GMT == <<"G", "M", "T">>
S_EST == <<"E", "S", "T">>
S_EDT == <<"E", "D", "T">>
S_GMT0 == <<"G", "M", "T", "0">>
S_HKT == <<"H", "K", "T">>
S_NYT == <<"N", "Y", "T">>
S_XYZ == <<"X", "Y", "Z">>
S_NewYork == <<"A", "m", "e", "r", "i", "c", "a", "/", "N", "e", "w", "_", "Y", "o", "r", "k">>
S_Chicago == <<"A", "m", "e", "r", "i", "c", "a", "/", "C", "h", "i", "c", "a", "g", "o">>
S_HongKong == <<"A", "s", "i", "a", "/", "H", "o", "n", "g", "_", "K", "o", "n", "g">>

\* the names the timezone database resolves
TzDatabase ==
    { <<S_UTC, Z_UTC>>, <<S_NewYork, Z_NewYork>>, <<S_Chicago, Z_Chicago>>,
      <<S_HongKong, Z_HongKong>>, <<S_GMT0, Z_GMT0>> }

KnownName(name) == \E e \in TzDatabase : e[1] = name

\* dateutil.tz.gettz(name): the zone of a known name, the local zone for an
\* empty name, None (NoTz) otherwise
gettz(name, local) ==
    IF name = <<>> THEN local
    ELSE IF KnownName(name) THEN (CHOOSE e \in TzDatabase : e[1] = name)[2]
    ELSE NoTz

TZ_ALIAS_MAP == { <<S_HKT, S_HongKong>>, <<S_NYT, S_NewYork>> }

IsAlias(name) == \E e \in TZ_ALIAS_MAP : e[1] = name

\* the tz argument: None, a str, or a tzinfo object
TzNone == [type |-> "none", s |-> <<>>, zone |-> NoTz]
TzStr(s) == [type |-> "str", s |-> s, zone |-> NoTz]
TzObj(z) == [type |-> "tzinfo", s |-> <<>>, zone |-> z]

\* bool(tz): None and '' are falsy
Truthy(tz) == (tz.type = "str" /\ tz.s # <<>>) \/ tz.type = "tzinfo"

\* _get_tz: None (NoTz) for a str that neither gettz nor the alias map resolves
get_tz(tz, local) ==
    LET tz_obj == IF tz.type = "str" THEN gettz(tz.s, local)
                  ELSE IF tz.type = "tzinfo" THEN tz.zone ELSE NoTz
    IN  IF tz_obj = NoTz
        THEN IF tz.type = "str" /\ IsAlias(tz.s)
             THEN gettz((CHOOSE e \in TZ_ALIAS_MAP : e[1] = tz.s)[2], local)
             ELSE IF tz.type = "none" THEN local
             ELSE tz_obj
        ELSE tz_obj

\* time.tzname of the host, which the interpreter's own %Z accepts beside utc and gmt
TzNames(local) == IF local = Z_NewYork THEN {S_EST, S_EDT} ELSE {S_UTC}
NativeZoneNames(local) == {S_UTC, S_GMT} \cup TzNames(local)

---------------------------------------------------------------------------
(* _strptime.TimeRE: the table of directive patterns, and matching *)

\* the directives of this model's formats
Directives == {"H", "M", "z", "Z", "%"}

\* a new TimeRE() of the interpreter
NativeTimeRE(nc, local) ==
    [z |-> IF nc THEN "colon" ELSE "strict", Z |-> "native", names |-> NativeZoneNames(local)]

\* time_re['z'] = r'(?P<z>[+-]\d\d:?[0-5]\d)'
InstallZOffset(re) == [re EXCEPT !.z = "override"]
\* time_re['Z'] = r'(?P<Z>[0-9A-Za-z_/+-]+)'
InstallZName(re) == [re EXCEPT !.Z = "override"]

TokenizerTimeRE(nc, local) == InstallZName(InstallZOffset(NativeTimeRE(nc, local)))

RECURSIVE PatternStatus(_, _)
\* TimeRE.pattern: "ok", or the exception it raises on a stray or unknown directive
PatternStatus(fmt, j) ==
    IF j > Len(fmt) THEN "ok"
    ELSE IF fmt[j] = "%"
         THEN IF j = Len(fmt) THEN "stray %"
              ELSE IF fmt[j + 1] \notin Directives THEN "bad directive"
              ELSE PatternStatus(fmt, j + 2)
         ELSE PatternStatus(fmt, j + 1)

RECURSIVE DirectiveSeq(_, _)
\* the named groups of the pattern, in order
DirectiveSeq(fmt, j) ==
    IF j >= Len(fmt) THEN <<>>
    ELSE IF fmt[j] = "%"
         THEN (IF fmt[j + 1] = "%" THEN <<>> ELSE <<fmt[j + 1]>>) \o DirectiveSeq(fmt, j + 2)
         ELSE DirectiveSeq(fmt, j + 1)

\* re.compile: a group name used twice is an error
CompileStatus(fmt) ==
    IF PatternStatus(fmt, 1) # "ok" THEN PatternStatus(fmt, 1)
    ELSE LET ds == DirectiveSeq(fmt, 1)
         IN  IF \E a, b \in DOMAIN ds : a # b /\ ds[a] = ds[b]
             THEN "redefinition of group name" ELSE "ok"

RECURSIVE SpaceRun(_, _)
SpaceRun(s, i) == IF Char(s, i) = " " THEN 1 + SpaceRun(s, i + 1) ELSE 0

ZNameClass(c) == c \in Digits \cup Upper \cup Lower \cup {"_", "/", "+", "-"}

RECURSIVE ZNameRun(_, _)
ZNameRun(s, i) == IF ZNameClass(Char(s, i)) THEN 1 + ZNameRun(s, i + 1) ELSE 0

\* <<i + n, ..., i + 1>>: the ends a greedy run of n tries, longest first
GreedyEnds(i, n) == [k \in 1..n |-> i + (n - k + 1)]

\* (?P<H>2[0-3]|[0-1]\d|\d)
EndsH(s, i) ==
    (IF \/ Char(s, i) = "2" /\ Char(s, i + 1) \in {"0", "1", "2", "3"}
        \/ Char(s, i) \in {"0", "1"} /\ IsDigit(Char(s, i + 1))
     THEN <<i + 2>> ELSE <<>>)
    \o (IF IsDigit(Char(s, i)) THEN <<i + 1>> ELSE <<>>)

\* (?P<M>[0-5]\d|\d)
EndsM(s, i) ==
    (IF Char(s, i) \in Digits05 /\ IsDigit(Char(s, i + 1)) THEN <<i + 2>> ELSE <<>>)
    \o (IF IsDigit(Char(s, i)) THEN <<i + 1>> ELSE <<>>)

OffsetHead(s, i) ==
    Char(s, i) \in {"+", "-"} /\ IsDigit(Char(s, i + 1)) /\ IsDigit(Char(s, i + 2))
Pair05(s, k) == Char(s, k) \in Digits05 /\ IsDigit(Char(s, k + 1))

\* [+-]\d\d:?[0-5]\d, the ends of hh:mm tried before those of hhmm
EndsHHMM(s, i, colon) ==
    IF ~OffsetHead(s, i) THEN <<>>
    ELSE (IF colon /\ Char(s, i + 3) = ":" /\ Pair05(s, i + 4) THEN <<i + 6>> ELSE <<>>)
         \o (IF Pair05(s, i + 3) THEN <<i + 5>> ELSE <<>>)

\* (:?[0-5]\d)? after hh:mm ending at e
EndsSeconds(s, e) ==
    (IF Char(s, e) = ":" /\ Pair05(s, e + 1) THEN <<e + 3>> ELSE <<>>)
    \o (IF Pair05(s, e) THEN <<e + 2>> ELSE <<>>)
    \o <<e>>

RECURSIVE FlatSeconds(_, _)
FlatSeconds(s, ends) ==
    IF ends = <<>> THEN <<>> ELSE EndsSeconds(s, Head(ends)) \o FlatSeconds(s, Tail(ends))

\* %z: the tokenizer's override, the interpreter's pattern with an optional
\* colon and seconds (or a literal Z), or the interpreter's older hhmm-only one
\* (the fraction \.\d{1,6} is left out: no input of the model holds a ".")
EndsOffset(re, s, i) ==
    CASE re.z = "override" -> EndsHHMM(s, i, TRUE)
      [] re.z = "colon" ->
            FlatSeconds(s, EndsHHMM(s, i, TRUE)) \o (IF Char(s, i) = "Z" THEN <<i + 1>> ELSE <<>>)
      [] OTHER -> EndsHHMM(s, i, FALSE)

\* %Z: the tokenizer's override [0-9A-Za-z_/+-]+, or the interpreter's
\* alternation of zone names, longest first
EndsName(re, s, i) ==
    IF re.Z = "override" THEN GreedyEnds(i, ZNameRun(s, i))
    ELSE SelectSeq(GreedyEnds(i, Len(s) - i + 1),
                   LAMBDA e : \E nm \in re.names : LowerStr(nm) = LowerStr(SubSeq(s, i, e - 1)))

DirectiveEnds(re, d, s, i) ==
    CASE d = "H" -> EndsH(s, i)
      [] d = "M" -> EndsM(s, i)
      [] d = "z" -> EndsOffset(re, s, i)
      [] d = "Z" -> EndsName(re, s, i)
      [] OTHER -> IF Char(s, i) = "%" THEN <<i + 1>> ELSE <<>>

RECURSIVE MatchFrom(_, _, _, _, _, _), TryEnds(_, _, _, _, _, _, _, _)
\* the first way, in the regex engine's backtracking order, that fmt from j
\* matches s from i: <<[end, caps]>> or <<>>.  caps are the (name, value)
\* pairs of groupdict(), in group order
MatchFrom(re, fmt, j, s, i, caps) ==
    IF j > Len(fmt) THEN << [end |-> i, caps |-> caps] >>
    ELSE IF fmt[j] = "%"
         THEN LET d == fmt[j + 1]
              IN  TryEnds(re, fmt, j + 2, s, i, caps, IF d = "%" THEN "" ELSE d,
                          DirectiveEnds(re, d, s, i))
    ELSE IF fmt[j] = " "
         THEN TryEnds(re, fmt, j + SpaceRun(fmt, j), s, i, caps, "",
                      GreedyEnds(i, SpaceRun(s, i)))
    ELSE IF ToLower(Char(s, i)) = ToLower(fmt[j])
         THEN MatchFrom(re, fmt, j + 1, s, i + 1, caps)
         ELSE <<>>

TryEnds(re, fmt, j, s, i, caps, d, ends) ==
    IF ends = <<>> THEN <<>>
    ELSE LET e == Head(ends)
             caps2 == IF d = "" THEN caps ELSE Append(caps, <<d, SubSeq(s, i, e - 1)>>)
             r == MatchFrom(re, fmt, j, s, e, caps2)
         IN  IF r # <<>> THEN r ELSE TryEnds(re, fmt, j, s, i, caps, d, Tail(ends))

\* token maps
HasTok(tokens, d) == \E k \in DOMAIN tokens : tokens[k][1] = d
Tok(tokens, d) == tokens[CHOOSE k \in DOMAIN tokens : tokens[k][1] = d][2]
SetTok(tokens, d, v) == [k \in DOMAIN tokens |-> IF tokens[k][1] = d THEN <<d, v>> ELSE tokens[k]]

---------------------------------------------------------------------------
(* Results *)

Day1900 == 0 - 25567
NoDt == [day |-> 0, sec |-> 0, us |-> 0, tzinfo |-> NoTz]
NoSpec == [type |-> "unused", s |-> <<>>, zone |-> NoTz]
Raise(e) == [status |-> "error", err |-> e, dt |-> NoDt, tokens |-> <<>>, spec |-> NoSpec]
Return(dt, tokens) == [status |-> "ok", err |-> "", dt |-> dt, tokens |-> tokens, spec |-> NoSpec]


---------------------------------------------------------------------------
(* datetime.strptime of the interpreter *)

\* _strptime's reading of a %z value: [err, val], val the offset in seconds
ParseOffset(z0) ==
    IF z0 = <<"Z">> THEN [err |-> "", val |-> 0]
    ELSE LET colon == Char(z0, 4) = ":"
             z1 == IF colon THEN SubSeq(z0, 1, 3) \o SubSeq(z0, 5, Len(z0)) ELSE z0
             bad == colon /\ Len(z1) > 5 /\ Char(z1, 6) # ":"
             z == IF colon /\ Len(z1) > 5 THEN SubSeq(z1, 1, 5) \o SubSeq(z1, 7, Len(z1)) ELSE z1
             secs == SubSeq(z, 6, IF Len(z) < 7 THEN Len(z) ELSE 7)
             mag == IntOf(SubSeq(z, 2, 3)) * 3600 + IntOf(SubSeq(z, 4, 5)) * 60
                    + (IF secs = <<>> THEN 0 ELSE IntOf(secs))
         IN  IF bad THEN [err |-> "Inconsistent use of :", val |-> 0]
             ELSE IF \E k \in DOMAIN secs : ~IsDigit(secs[k])
                  THEN [err |-> "invalid literal for int()", val |-> 0]
             ELSE [err |-> "", val |-> IF z[1] = "-" THEN 0 - mag ELSE mag]

\* datetime.strptime(data, fmt): a naive timestamp on 1900-01-01, or one with
\* the fixed offset of a %z value; a %Z value is matched and discarded
Strptime(data, fmt, nre) ==
    IF CompileStatus(fmt) # "ok" THEN Raise(CompileStatus(fmt))
    ELSE LET m == MatchFrom(nre, fmt, 1, data, 1, <<>>)
         IN  IF m = <<>> THEN Raise("does not match format")
             ELSE IF m[1].end # Len(data) + 1 THEN Raise("unconverted data remains")
             ELSE LET caps == m[1].caps
                      hour == IF HasTok(caps, "H") THEN IntOf(Tok(caps, "H")) ELSE 0
                      minute == IF HasTok(caps, "M") THEN IntOf(Tok(caps, "M")) ELSE 0
                      off == IF HasTok(caps, "z") THEN ParseOffset(Tok(caps, "z"))
                             ELSE [err |-> "", val |-> 0]
                  IN  IF off.err # "" THEN Raise(off.err)
                      ELSE Return([day |-> Day1900, sec |-> hour * 3600 + minute * 60, us |-> 0,
                                   tzinfo |-> IF HasTok(caps, "z") THEN FixedTz(off.val) ELSE NoTz],
                                  <<>>)

---------------------------------------------------------------------------
(* tz_aware_dt helpers *)

\* re.compile('(?<!%)%(%%)*(?!%)[zZ]').search(fmt): an odd run of % before z or Z
dt_fmt_search(fmt) ==
    \E i \in DOMAIN fmt :
        /\ fmt[i] = "%"
        /\ Char(fmt, i - 1) # "%"
        /\ \E k \in 0..Len(fmt) :
              /\ \A q \in 1..(2 * k) : Char(fmt, i + q) = "%"
              /\ Char(fmt, i + 2 * k + 1) \in {"z", "Z"}

\* _tokenize_datetime's match of dt against the matcher table re
tokenize_datetime(re, dt, fmt) ==
    IF CompileStatus(fmt) # "ok" THEN Raise(CompileStatus(fmt))
    ELSE LET m == MatchFrom(re, fmt, 1, dt, 1, <<>>)
         IN  IF m = <<>> THEN Raise("does not match format")
             ELSE IF m[1].end # Len(dt) + 1 THEN Raise("unconverted data remains")
             ELSE Return(NoDt, m[1].caps)

RECURSIVE recompile_datetime(_, _)
\* _recompile_datetime: each token's placeholder replaced in turn, in token order
recompile_datetime(tokens, fmt) ==
    IF tokens = <<>> THEN fmt
    ELSE recompile_datetime(Tail(tokens),
                            Replace(fmt, <<"%", Head(tokens)[1]>>, Head(tokens)[2]))

\* fmt.replace('%z', '').replace('%Z', '')
StripZonePlaceholders(fmt) == Replace(Replace(fmt, <<"%", "z">>, <<>>), <<"%", "Z">>, <<>>)

\* lines 220-233: the strict parse and its two relaxations
StrictParseWithRetry(dt, fmt, tokens, nre) ==
    LET first == Strptime(dt, fmt, nre)
    IN  IF first.status = "ok" THEN Return(first.dt, tokens)
        ELSE IF tokens # <<>> /\ first.err = "does not match format"
             THEN IF HasTok(tokens, "z") /\ Contains(Tok(tokens, "z"), ":")
                  THEN LET tokens2 == SetTok(tokens, "z", Replace(Tok(tokens, "z"), <<":">>, <<>>))
                           again == Strptime(recompile_datetime(tokens2, fmt), fmt, nre)
                       IN  IF again.status = "ok" THEN Return(again.dt, tokens2) ELSE again
                  ELSE IF HasTok(tokens, "Z")
                       THEN LET alt_fmt == Replace(fmt, <<"%", "Z">>, <<>>)
                                again == Strptime(recompile_datetime(tokens, alt_fmt), alt_fmt, nre)
                            IN  IF again.status = "ok" THEN Return(again.dt, tokens) ELSE again
                       ELSE first
             ELSE first

\* _parse_dt_from_str, given the token map (or error) the tokenizer produced
ParseWithTokens(dt, fmt, tz, tk, nre) ==
    IF tk.status # "ok" THEN tk
    ELSE LET strip == dt_fmt_search(fmt) /\ Truthy(tz)
             fmt2 == IF strip THEN StripZonePlaceholders(fmt) ELSE fmt
             dt2 == IF strip THEN recompile_datetime(tk.tokens, fmt2) ELSE dt
         IN  StrictParseWithRetry(dt2, fmt2, tk.tokens, nre)

\* _parse_dt_from_str with the tokenizer's matcher table re
parse_dt_from_str(dt, fmt, tz, re, nre) ==
    ParseWithTokens(dt, fmt, tz,
                    IF dt_fmt_search(fmt) THEN tokenize_datetime(re, dt, fmt) ELSE Return(NoDt, <<>>),
                    nre)

\* datetime.fromtimestamp(n) of n = sec + us / 10^6: the naive local wall clock
FromTimestamp(sec, us, local) ==
    [day |-> (sec + local.off) \div 86400, sec |-> (sec + local.off) % 86400,
     us |-> us, tzinfo |-> NoTz]

\* lines 100-112: attach a zone to a naive timestamp
AttachZone(p, tz, local) ==
    IF p.status # "ok" \/ p.dt.tzinfo # NoTz THEN p
    ELSE LET spec == IF tz.type # "none" THEN tz
                     ELSE IF HasTok(p.tokens, "Z") /\ Tok(p.tokens, "Z") # <<>>
                          THEN TzStr(Tok(p.tokens, "Z"))
                          ELSE NoSpec
             zone == IF spec = NoSpec THEN local ELSE get_tz(spec, local)
         IN  [p EXCEPT !.dt.tzinfo = zone, !.spec = spec]

\* datetime_with_tz(dt, fmt, tz) for a str, an int/float or a datetime
datetime_with_tz(c, re, nre, local) ==
    AttachZone(CASE c.kind = "str" -> parse_dt_from_str(c.s, c.fmt, c.tz, re, nre)
                 [] c.kind = "num" -> Return(FromTimestamp(c.sec, c.us, local), <<>>)
                 [] OTHER -> Return(c.dt, <<>>),
               c.tz, local)


---------------------------------------------------------------------------
(* The calls of the sequential specifications *)

HourParts == { <<"1", "2">>, <<"7">> }
OffsetParts == { <<>>, <<" ", "+", "0", "5", "3", "0">>, <<" ", "+", "0", "5", ":", "3", "0">>, <<" ", "-", "0", "8", "0", "0">> }
NameParts == { <<>>, <<" ">> \o S_UTC, <<" ">> \o S_XYZ, <<" ">> \o S_HKT,
               <<" ">> \o S_Chicago, <<" ">> \o S_GMT0 }
OtherInputs == { <<"1", "+", "0", "5", "3", "0", "2", "5">>,
                 <<"1", "+", "0", "5", ":", "3", "0", "2", "5">>,
                 <<"%", "Z", " ", "U", "T", "C">>,
                 <<"%", "Z", " ", "A", "m", "e", "r", "i", "c", "a", "/", "C", "h", "i", "c", "a", "g", "o">>,
                 <<"1", "2", "%", "U", "T", "C">>,
                 <<"1", "2", " ", "%", "z">>,
                 <<"1", "2", " ", "U", "T", "C", " ", "x">> }

Inputs == { a \o b \o c : a \in HourParts, b \in OffsetParts, c \in NameParts } \cup OtherInputs

Formats == { <<"%", "H">>,
             <<"%", "H", " ", "%", "Z">>,
             <<"%", "H", " ", "%", "z">>,
             <<"%", "H", " ", "%", "z", " ", "%", "Z">>,
             <<"%", "H", "%", "z", "%", "M">>,
             <<"%", "%", "Z", " ", "%", "Z">>,
             <<"%", "H", "%", "%", "%", "Z">>,
             <<"%", "H", " ", "%", "%", "z">>,
             <<"%", "H", " ", "%", "H">> }

TzArgs == { TzNone, TzStr(<<>>), TzStr(S_UTC), TzStr(S_Chicago), TzStr(S_HKT), TzStr(S_XYZ),
            TzObj(Z_Chicago) }

LocalZones == {Z_NewYork, Z_UTC}

StrCall(s, fmt, tz) ==
    [kind |-> "str", s |-> s, fmt |-> fmt, tz |-> tz, sec |-> 0, us |-> 0, dt |-> NoDt,
     millis |-> FALSE]
NumCall(sec, us, tz, millis) ==
    [kind |-> "num", s |-> <<>>, fmt |-> <<>>, tz |-> tz, sec |-> sec, us |-> us, dt |-> NoDt,
     millis |-> millis]
DtCall(dt, tz, millis) ==
    [kind |-> "datetime", s |-> <<>>, fmt |-> <<>>, tz |-> tz, sec |-> 0, us |-> 0, dt |-> dt,
     millis |-> millis]

\* the zones a datetime argument carries (None for a naive one)
ArgZones == {NoTz, Z_UTC, Z_HongKong, FixedTz(19800)}

ParseCalls ==
    { StrCall(s, f, t) : s \in Inputs, f \in Formats, t \in TzArgs }
    \cup { NumCall(n, u, t, FALSE) : n \in {0 - 1, 0, 3600}, u \in {0, 500000}, t \in TzArgs }
    \cup { DtCall([day |-> 0, sec |-> n, us |-> 0, tzinfo |-> z], t, FALSE) :
              n \in {0, 3600}, z \in ArgZones, t \in TzArgs }

\* the matcher table a call of the tokenizer uses: the cached one, or a new
\* one with both overrides installed (lines 239-245, one thread)
CachedOrNew == IF time_re = 0 THEN TokenizerTimeRE(nativeColon, TZ_LOCAL) ELSE heap[time_re]

NoRes == Raise("")

InitHost ==
    /\ TZ_LOCAL \in LocalZones
    /\ nativeColon \in BOOLEAN

\* no thread is inside the tokenizer
NoThreads == tpc = <<>> /\ tlocal = <<>> /\ tseen = <<>>

InitParse ==
    /\ InitHost /\ NoThreads
    /\ \/ time_re = 0 /\ heap = <<>> /\ search_cached \in BOOLEAN
       \/ time_re = 1 /\ heap = <<TokenizerTimeRE(nativeColon, TZ_LOCAL)>> /\ search_cached = TRUE
    /\ call \in ParseCalls
    /\ res = NoRes
    /\ pc = "idle"

\* what a call of the tokenizer leaves in the cache
PopulateCache ==
    IF time_re = 0
    THEN time_re' = 1 /\ heap' = <<TokenizerTimeRE(nativeColon, TZ_LOCAL)>>
    ELSE UNCHANGED <<time_re, heap>>

DatetimeWithTzStr ==
    /\ pc = "idle" /\ call.kind = "str"
    /\ res' = datetime_with_tz(call, CachedOrNew, NativeTimeRE(nativeColon, TZ_LOCAL), TZ_LOCAL)
    /\ IF dt_fmt_search(call.fmt) THEN PopulateCache ELSE UNCHANGED <<time_re, heap>>
    /\ search_cached' = TRUE
    /\ pc' = "done"
    /\ UNCHANGED <<TZ_LOCAL, nativeColon, call, tpc, tlocal, tseen>>

DatetimeWithTzNum ==
    /\ pc = "idle" /\ call.kind = "num"
    /\ res' = datetime_with_tz(call, CachedOrNew, NativeTimeRE(nativeColon, TZ_LOCAL), TZ_LOCAL)
    /\ pc' = "done"
    /\ UNCHANGED <<TZ_LOCAL, nativeColon, search_cached, time_re, heap, call, tpc, tlocal, tseen>>

DatetimeWithTzDatetime ==
    /\ pc = "idle" /\ call.kind = "datetime"
    /\ res' = datetime_with_tz(call, CachedOrNew, NativeTimeRE(nativeColon, TZ_LOCAL), TZ_LOCAL)
    /\ pc' = "done"
    /\ UNCHANGED <<TZ_LOCAL, nativeColon, search_cached, time_re, heap, call, tpc, tlocal, tseen>>

Next == DatetimeWithTzStr \/ DatetimeWithTzNum \/ DatetimeWithTzDatetime

Spec == InitParse /\ [][Next]_vars

---------------------------------------------------------------------------
(* Properties of datetime_with_tz, checked under Spec *)

\* the token map the tokenizer gives the call's string, run alone
TokensOf(c) == tokenize_datetime(TokenizerTimeRE(nativeColon, TZ_LOCAL), c.s, c.fmt)

\* fmt holds the placeholder %d (not an escaped %%d)
HasPlaceholder(fmt, d) ==
    /\ CompileStatus(fmt) = "ok"
    /\ \E k \in DOMAIN DirectiveSeq(fmt, 1) : DirectiveSeq(fmt, 1)[k] = d

\* the absolute instant of an aware timestamp: minutes since 1970-01-01T00:00Z,
\* and the seconds and microseconds within the minute
Instant(dt) ==
    << dt.day * 1440 + ((dt.sec - dt.tzinfo.off) \div 60), (dt.sec - dt.tzinfo.off) % 60, dt.us >>

\* the wall-clock second of day that the %H and %M tokens of the input write
WallClockOf(tokens) ==
    (IF HasTok(tokens, "H") THEN IntOf(Tok(tokens, "H")) * 3600 ELSE 0)
    + (IF HasTok(tokens, "M") THEN IntOf(Tok(tokens, "M")) * 60 ELSE 0)

StrDone == pc = "done" /\ call.kind = "str"

\* C1: whenever datetime_with_tz attaches a zone to a naive parse result and
\* the specifier it resolves (the tz string, or the %Z token when tz is None)
\* is neither a name of the timezone database nor a key of TZ_ALIAS_MAP, the
\* call fails with an UnresolvedTimezone error and returns no timestamp.
C1_UnresolvedZoneRaises ==
    (/\ pc = "done"
     /\ res.spec.type = "str" /\ res.spec.s # <<>>
     /\ ~KnownName(res.spec.s) /\ ~IsAlias(res.spec.s))
    => (res.status = "error" /\ res.err = "UnresolvedTimezone")

\* C2: every timestamp datetime_with_tz returns, for every input kind, format
\* and tz argument, is timezone-aware (its tzinfo is not None).
C2_ReturnedTimestampIsAware ==
    (pc = "done" /\ res.status = "ok") => res.dt.tzinfo # NoTz

\* C3: for a format with a %Z placeholder (also one that holds %z as well) and
\* a matching input whose name token is a name of the timezone database,
\* datetime_with_tz with tz=None returns a timestamp whose zone is the zone
\* that name resolves to.
C3_NameTokenGivesZone ==
    (/\ StrDone /\ call.tz = TzNone
     /\ HasPlaceholder(call.fmt, "Z")
     /\ TokensOf(call).status = "ok"
     /\ KnownName(Tok(TokensOf(call).tokens, "Z")))
    => (/\ res.status = "ok"
        /\ res.dt.tzinfo = gettz(Tok(TokensOf(call).tokens, "Z"), TZ_LOCAL))

\* C4: for a string that matches a format holding %z and/or %Z, a call with a
\* resolvable non-empty tz returns a timestamp whose wall-clock fields are
\* those written in the input and whose zone is the resolved tz.
C4_ExplicitTzWins ==
    (/\ StrDone /\ Truthy(call.tz) /\ get_tz(call.tz, TZ_LOCAL) # NoTz
     /\ HasPlaceholder(call.fmt, "z") \/ HasPlaceholder(call.fmt, "Z")
     /\ TokensOf(call).status = "ok")
    => (/\ res.status = "ok"
        /\ res.dt.tzinfo = get_tz(call.tz, TZ_LOCAL)
        /\ res.dt.sec = WallClockOf(TokensOf(call).tokens))

\* the call's input with its offset token written without the colon
ColonlessTwin(c) ==
    [c EXCEPT !.s = Replace(c.s, Tok(TokensOf(c).tokens, "z"),
                            Replace(Tok(TokensOf(c).tokens, "z"), <<":">>, <<>>))]

\* C5: for a format holding %z and tz=None, the input written with +hh:mm and
\* the same input written with +hhmm both succeed and give the same instant,
\* whether or not the interpreter's strict parse accepts the colon form.
C5_ColonFormsAgree ==
    (/\ StrDone /\ call.tz = TzNone
     /\ HasPlaceholder(call.fmt, "z")
     /\ TokensOf(call).status = "ok"
     /\ Contains(Tok(TokensOf(call).tokens, "z"), ":"))
    => LET twin == datetime_with_tz(ColonlessTwin(call), TokenizerTimeRE(nativeColon, TZ_LOCAL),
                                    NativeTimeRE(nativeColon, TZ_LOCAL), TZ_LOCAL)
       IN  /\ res.status = "ok" /\ twin.status = "ok"
           /\ Instant(res.dt) = Instant(twin.dt)

\* C9: with an explicit tz, once the tokenizer has matched the input end to
\* end, the call never fails: the format stripped of %z/%Z and the input
\* rebuilt from the tokens are accepted by the strict parse, for formats of
\* literals, escaped percent signs and placeholders.
C9_ReducedPairParses ==
    (/\ StrDone /\ Truthy(call.tz)
     /\ dt_fmt_search(call.fmt)
     /\ TokensOf(call).status = "ok")
    => res.status = "ok"

---------------------------------------------------------------------------
(* str2epoch *)

\* floor(dt.timestamp()): whole seconds since the epoch; a naive timestamp is
\* read as local time
TimestampFloor(dt, local) ==
    dt.day * 86400 + dt.sec - (IF dt.tzinfo = NoTz THEN local.off ELSE dt.tzinfo.off)

\* int(dt.timestamp() * 1000) for the timestamp S + us / 10^6: int() truncates
\* towards zero (the float product is taken as exact)
IntOfTimes1000(S, us) ==
    IF S < 0 /\ us % 1000 # 0 THEN S * 1000 + (us \div 1000) + 1
    ELSE S * 1000 + (us \div 1000)

\* str2epoch(dt, fmt, millis, tz), given r = datetime_with_tz(dt, fmt, tz)
EpochOf(r, millis, local) ==
    [status |-> r.status, err |-> r.err, dt |-> r.dt,
     epoch |-> IF r.status # "ok" THEN 0
               ELSE IntOfTimes1000(TimestampFloor(r.dt, local), r.dt.us)
                        \div (IF millis THEN 1 ELSE 1000)]

\* an aware or naive timestamp of instant S + us / 10^6 in zone z
AtInstant(S, us, z, local) ==
    LET w == S + (IF z = NoTz THEN local.off ELSE z.off)
    IN  [day |-> w \div 86400, sec |-> w % 86400, us |-> us, tzinfo |-> z]

MaxEpoch == 2
EpochMicros == {0, 1, 499, 500, 999, 1000, 500000, 999000, 999500, 999999}

EpochCalls(local) ==
    { NumCall(n, u, t, m) : n \in (0 - MaxEpoch)..MaxEpoch, u \in {0, 500000},
                            t \in TzArgs, m \in BOOLEAN }
    \cup { DtCall(AtInstant(n, u, z, local), t, m) :
              n \in (0 - MaxEpoch)..MaxEpoch, u \in EpochMicros, z \in ArgZones,
              t \in {TzNone, TzStr(S_UTC)}, m \in BOOLEAN }

InitEpoch ==
    /\ InitHost /\ NoThreads
    /\ time_re = 0 /\ heap = <<>> /\ search_cached = FALSE
    /\ call \in EpochCalls(TZ_LOCAL)
    /\ res = [status |-> "", err |-> "", dt |-> NoDt, epoch |-> 0]
    /\ pc = "idle"

Str2Epoch ==
    /\ pc = "idle"
    /\ \E r \in {datetime_with_tz(call, CachedOrNew, NativeTimeRE(nativeColon, TZ_LOCAL), TZ_LOCAL)} :
          res' = EpochOf(r, call.millis, TZ_LOCAL)
    /\ pc' = "done"
    /\ UNCHANGED <<TZ_LOCAL, nativeColon, search_cached, time_re, heap, call, tpc, tlocal, tseen>>

SpecEpoch == InitEpoch /\ [][Str2Epoch]_vars

\* C6: str2epoch with millis=False gives the floor of the epoch value in
\* seconds, for every aware timestamp whose epoch value is a positive, zero
\* or negative whole number of microseconds.
C6_Str2EpochIsFloor ==
    (/\ pc = "done" /\ call.kind = "datetime" /\ call.dt.tzinfo # NoTz
     /\ ~call.millis)
    => (res.status = "ok" /\ res.epoch = TimestampFloor(call.dt, TZ_LOCAL))

\* C10: a numeric epoch input n keeps its instant: for every tz argument that
\* is None or resolvable, the timestamp datetime_with_tz(n, tz=tz) returns
\* denotes the instant n, so str2epoch(n, tz=tz) is floor(n).
C10_EpochKeepsInstant ==
    (/\ pc = "done" /\ call.kind = "num" /\ ~call.millis
     /\ get_tz(call.tz, TZ_LOCAL) # NoTz)
    => (/\ res.status = "ok"
        /\ TimestampFloor(res.dt, TZ_LOCAL) = call.sec /\ res.dt.us = call.us
        /\ res.epoch = call.sec)

---------------------------------------------------------------------------
(* utils.format_duration *)

\* str() of a natural number
RECURSIVE Dec(_)
Dec(n) ==
    IF n < 10 THEN <<Digits_seq[n + 1]>> ELSE Dec(n \div 10) \o <<Digits_seq[(n % 10) + 1]>>

\* '{:02d}'.format(n): at least two digits, zero-padded
Pad2(n) == IF n < 10 THEN <<"0">> \o Dec(n) ELSE Dec(n)

\* a mutant of DurationFields: the hours are never split into days
DurationFieldsNoDays(a) ==
    [d |-> 0, h |-> (a \div 240) \div 60, m |-> (a \div 240) % 60, s |-> a % 240]

\* lines 18-20: the divmod chain on abs(seconds), here in quarter seconds
\* (a = 4 * abs(seconds)); s stays in quarter seconds
DurationFields(a) ==
    [d |-> ((a \div 240) \div 60) \div 24, h |-> ((a \div 240) \div 60) % 24,
     m |-> (a \div 240) % 60, s |-> a % 240]

\* format_duration(seconds) for seconds = c.q / 4, an int or a float
format_duration(c) ==
    LET f == DurationFields(IF c.q < 0 THEN 0 - c.q ELSE c.q)
        sign == IF c.q < 0 THEN <<"-">> ELSE <<>>
        x == IF f.d > 0 THEN sign \o Dec(f.d) \o <<"d">> ELSE sign
    IN  IF c.isint
        THEN x \o Pad2(f.h) \o <<":">> \o Pad2(f.m) \o <<":">> \o Pad2(f.s \div 4)
        ELSE x \o Pad2(f.h) \o <<":">> \o Pad2(f.m) \o <<":">> \o Pad2(f.s \div 4)
               \o <<".">> \o Pad2((f.s % 4) * 25)

DurationWindow == 30
DurationBases == {0, 60, 3600, 3725, 86400, 90061, 864000}

\* the whole seconds tried: those within DurationWindow of a base
DurationSeconds ==
    { n \in UNION { (b - DurationWindow)..(b + DurationWindow) : b \in DurationBases } : n >= 0 }

DurationCalls ==
    { [isint |-> TRUE, q |-> 4 * sg * n] : sg \in {1, 0 - 1}, n \in DurationSeconds }
    \cup { [isint |-> FALSE, q |-> sg * (4 * b + fr)] :
              sg \in {1, 0 - 1}, b \in DurationBases, fr \in 0..3 }

InitDuration ==
    /\ TZ_LOCAL = Z_UTC /\ nativeColon = TRUE
    /\ tpc = <<>> /\ tlocal = <<>> /\ tseen = <<>>
    /\ time_re = 0 /\ heap = <<>> /\ search_cached = FALSE
    /\ call \in DurationCalls
    /\ res = <<>>
    /\ pc = "idle"

FormatDuration ==
    /\ pc = "idle"
    /\ res' = format_duration(call)
    /\ pc' = "done"
    /\ UNCHANGED <<TZ_LOCAL, nativeColon, search_cached, time_re, heap, call, tpc, tlocal, tseen>>

SpecDuration == InitDuration /\ [][FormatDuration]_vars

\* the parts of a rendered duration: a leading "-", the digits before a "d",
\* and the clock after it
DurationParts(out) ==
    LET neg == Char(out, 1) = "-"
        body == IF neg THEN Tail(out) ELSE out
        dpos == IF Contains(body, "d") THEN CHOOSE k \in DOMAIN body : body[k] = "d" ELSE 0
    IN  [neg |-> neg, hasDays |-> dpos > 0, days |-> SubSeq(body, 1, dpos - 1),
         clock |-> SubSeq(body, dpos + 1, Len(body))]

AllDigits(str) == \A k \in DOMAIN str : IsDigit(str[k])

\* C8: format_duration of an integer n is sign + days + HH:MM:SS: the sign is
\* "-" iff n < 0, the day part "Dd" is there iff D = |n| div 86400 > 0, and
\* HH, MM, SS are two zero-padded digits each with HH < 24, MM < 60, SS < 60
\* and D * 86400 + HH * 3600 + MM * 60 + SS = |n|.
C8_FormatDurationOfInt ==
    (pc = "done" /\ call.isint)
    => LET n == call.q \div 4
           a == IF n < 0 THEN 0 - n ELSE n
           p == DurationParts(res)
           c == p.clock
           D == IF p.hasDays THEN IntOf(p.days) ELSE 0
           HH == IntOf(SubSeq(c, 1, 2))
           MM == IntOf(SubSeq(c, 4, 5))
           SS == IntOf(SubSeq(c, 7, 8))
       IN  /\ p.neg <=> n < 0
           /\ p.hasDays <=> (a \div 86400 > 0)
           /\ p.hasDays => (p.days # <<>> /\ AllDigits(p.days) /\ p.days[1] # "0")
           /\ D = a \div 86400
           /\ Len(c) = 8 /\ c[3] = ":" /\ c[6] = ":"
           /\ AllDigits(SubSeq(c, 1, 2)) /\ AllDigits(SubSeq(c, 4, 5)) /\ AllDigits(SubSeq(c, 7, 8))
           /\ HH < 24 /\ MM < 60 /\ SS < 60
           /\ D * 86400 + HH * 3600 + MM * 60 + SS = a

\* format_duration(90061) has returned "1d01:01:01"
C8_Witness ==
    /\ pc = "done" /\ call.isint /\ call.q = 4 * 90061
    /\ res = <<"1", "d", "0", "1", ":", "0", "1", ":", "0", "1">>

---------------------------------------------------------------------------
(* Threads calling datetime_with_tz on strings, interleaved between the      *)
(* statements of _tokenize_datetime                                          *)

NThreads == 2
Threads == 1..NThreads

ThreadCalls ==
    { StrCall(<<"1", "2", " ", "U", "T", "C">>, <<"%", "H", " ", "%", "Z">>, TzNone), StrCall(<<"1", "2", " ", "A", "m", "e", "r", "i", "c", "a", "/", "C", "h", "i", "c", "a", "g", "o">>, <<"%", "H", " ", "%", "Z">>, TzNone), StrCall(<<"1", "2", " ", "+", "0", "5", ":", "3", "0">>, <<"%", "H", " ", "%", "z">>, TzNone),
      StrCall(<<"1", "2", " ", "+", "0", "5", ":", "3", "0", " ", "U", "T", "C">>, <<"%", "H", " ", "%", "z", " ", "%", "Z">>, TzNone), StrCall(<<"1", "2">>, <<"%", "H">>, TzNone) }

\* the %z and %Z placeholders of fmt in order: the table entries compile reads
ZoneDirectives(fmt) == SelectSeq(DirectiveSeq(fmt, 1), LAMBDA d : d \in {"z", "Z"})

Unread(local) == [z |-> "unread", Z |-> "unread", names |-> NativeZoneNames(local)]

\* the table entry of directive d, as the table obj holds it now
ReadEntry(seen, obj, d) ==
    IF d = "z" THEN [seen EXCEPT !.z = obj.z] ELSE [seen EXCEPT !.Z = obj.Z]

InitThreads ==
    /\ InitHost
    /\ time_re = 0 /\ heap = <<>> /\ search_cached = FALSE
    /\ call \in [Threads -> ThreadCalls]
    /\ res = [t \in Threads |-> NoRes]
    /\ pc = "threads"
    /\ tpc = [t \in Threads |-> "begin"]
    /\ tlocal = [t \in Threads |-> 0]
    /\ tseen = [t \in Threads |-> Unread(TZ_LOCAL)]


HostUnchanged == UNCHANGED <<TZ_LOCAL, nativeColon, call, pc>>

\* lines 202-208: look the format up for an unescaped %z or %Z
TBegin(t) ==
    /\ tpc[t] = "begin"
    /\ search_cached' = TRUE
    /\ tpc' = [tpc EXCEPT ![t] = IF dt_fmt_search(call[t].fmt) THEN "lookup" ELSE "parse"]
    /\ HostUnchanged /\ UNCHANGED <<time_re, heap, tlocal, tseen, res>>

\* line 240: time_re = _tokenize_datetime._time_re, or AttributeError
TLookup(t) ==
    /\ tpc[t] = "lookup"
    /\ IF time_re # 0
       THEN /\ tlocal' = [tlocal EXCEPT ![t] = time_re]
            /\ tpc' = [tpc EXCEPT ![t] = "compile"]
       ELSE /\ tpc' = [tpc EXCEPT ![t] = "create"]
            /\ UNCHANGED tlocal
    /\ HostUnchanged /\ UNCHANGED <<search_cached, time_re, heap, tseen, res>>

\* line 243: time_re = _tokenize_datetime._time_re = TimeRE()
TCreate(t) ==
    /\ tpc[t] = "create"
    /\ heap' = Append(heap, NativeTimeRE(nativeColon, TZ_LOCAL))
    /\ tlocal' = [tlocal EXCEPT ![t] = Len(heap) + 1]
    /\ time_re' = Len(heap) + 1
    /\ tpc' = [tpc EXCEPT ![t] = "install_z"]
    /\ HostUnchanged /\ UNCHANGED <<search_cached, tseen, res>>

\* line 244: time_re['z'] = ...
TInstallOffset(t) ==
    /\ tpc[t] = "install_z"
    /\ heap' = [heap EXCEPT ![tlocal[t]] = InstallZOffset(@)]
    /\ tpc' = [tpc EXCEPT ![t] = "install_Z"]
    /\ HostUnchanged /\ UNCHANGED <<search_cached, time_re, tlocal, tseen, res>>

\* line 245: time_re['Z'] = ...
TInstallName(t) ==
    /\ tpc[t] = "install_Z"
    /\ heap' = [heap EXCEPT ![tlocal[t]] = InstallZName(@)]
    /\ tpc' = [tpc EXCEPT ![t] = "compile"]
    /\ HostUnchanged /\ UNCHANGED <<search_cached, time_re, tlocal, tseen, res>>

\* line 247, time_re.compile(fmt): pattern() reads the table entry of the
\* first zone placeholder
TCompileFirst(t) ==
    /\ tpc[t] = "compile"
    /\ tseen' = [tseen EXCEPT ![t] = ReadEntry(@, heap[tlocal[t]], ZoneDirectives(call[t].fmt)[1])]
    /\ tpc' = [tpc EXCEPT ![t] = IF Len(ZoneDirectives(call[t].fmt)) > 1 THEN "compile_rest"
                                 ELSE "match"]
    /\ HostUnchanged /\ UNCHANGED <<search_cached, time_re, heap, tlocal, res>>

\* line 247, later in pattern(): the entry of the second zone placeholder
TCompileRest(t) ==
    /\ tpc[t] = "compile_rest"
    /\ tseen' = [tseen EXCEPT ![t] = ReadEntry(@, heap[tlocal[t]], ZoneDirectives(call[t].fmt)[2])]
    /\ tpc' = [tpc EXCEPT ![t] = "match"]
    /\ HostUnchanged /\ UNCHANGED <<search_cached, time_re, heap, tlocal, res>>

\* lines 248-252, then the rest of _parse_dt_from_str and datetime_with_tz,
\* which touch nothing shared
TFinish(t) ==
    /\ tpc[t] \in {"match", "parse"}
    /\ res' = [res EXCEPT ![t] =
                 AttachZone(ParseWithTokens(call[t].s, call[t].fmt, call[t].tz,
                                            IF tpc[t] = "match"
                                            THEN tokenize_datetime(tseen[t], call[t].s, call[t].fmt)
                                            ELSE Return(NoDt, <<>>),
                                            NativeTimeRE(nativeColon, TZ_LOCAL)),
                            call[t].tz, TZ_LOCAL)]
    /\ tpc' = [tpc EXCEPT ![t] = "done"]
    /\ HostUnchanged /\ UNCHANGED <<search_cached, time_re, heap, tlocal, tseen>>

NextThreads ==
    \E t \in Threads :
        \/ TBegin(t) \/ TLookup(t) \/ TCreate(t) \/ TInstallOffset(t) \/ TInstallName(t)
        \/ TCompileFirst(t) \/ TCompileRest(t) \/ TFinish(t)

SpecThreads == InitThreads /\ [][NextThreads]_vars

\* C7: under every interleaving of threads that call the tokenizer before its
\* matcher cache is populated, every call matches its input against a matcher
\* that has both the %z and the %Z override installed, so each call returns
\* what it returns when run alone.
C7_ConcurrentFirstUseIsSafe ==
    \A t \in Threads :
        (tpc[t] = "done" /\ dt_fmt_search(call[t].fmt))
        => /\ HasPlaceholder(call[t].fmt, "z") => tseen[t].z = "override"
           /\ HasPlaceholder(call[t].fmt, "Z") => tseen[t].Z = "override"
           /\ res[t] = datetime_with_tz(call[t], TokenizerTimeRE(nativeColon, TZ_LOCAL),
                                        NativeTimeRE(nativeColon, TZ_LOCAL), TZ_LOCAL)

=============================================================================
